---- MODULE Spec2Model ----
(***************************************************************************)
(* SimpleSim: the random-walk trajectory generators (Movable3D, UAV,       *)
(* GroundTarget) and the Simulator's detection analytics.                  *)
(*                                                                         *)
(* Real numbers are modelled by fixed-point integers: one integer is       *)
(* 1/Scale of a length unit.  A numpy array of shape (n, 3) is a sequence  *)
(* of n triples; Python index i is TLA+ index i + 1.                       *)
(***************************************************************************)
EXTENDS Integers, Sequences, FiniteSets, TLC

VARIABLES
    pc,                 \* position of the running constructor / operation
    kind,               \* class of the generator: "UAV" or "GroundTarget"
    number_of_steps,    \* self.number_of_steps
    max_step,           \* self.max_step
    start_position,     \* self.start_position
    steps,              \* self.steps (<<>> while None)
    route,              \* self.route (<<>> while None)
    drawn_steps,        \* history: the array np.random.uniform returned
    number_of_turns,    \* local of _insert_turns (-1 before it is drawn)
    turn_start_times,   \* local of _insert_turns: the starts still to be applied
    turns_applied,      \* history: <<start, left_or_right>> of every applied turn
    stop_elevation_time,\* local of _set_maximum_height (-1 before it is drawn)
    error,              \* exception that ended the last operation ("" when none)
    simulator,          \* "none", "Simulator" (src/Simulator.py) or
                        \* "Simulator_1_8" (src/src/Simulator.py, self.version = '1.8')
    target_route,       \* self.target.route
    uav_ground_trace_route,       \* self.uav_ground_trace_route
    uav_camera_fov_route,         \* self.uav_camera_fov_route
    uav_camera_fov_radius,        \* self.uav_camera_fov_radius
    uav_camera_fov_angle_degrees, \* self.uav_camera_fov_angle_degrees
    run_data,           \* history: the records get_run_data has returned
    overwritten,        \* history: <<name, calls>> for every route of a returned record
                        \* the caller has overwritten, after `calls` calls of get_run_data
    displayed           \* what the artists of the animated plot show, and the frame
                        \* _update_trajectories was last called for

vars == <<pc, kind, number_of_steps, max_step, start_position, steps, route,
          drawn_steps, number_of_turns, turn_start_times, turns_applied,
          stop_elevation_time, error, simulator, target_route,
          uav_ground_trace_route, uav_camera_fov_route, uav_camera_fov_radius,
          uav_camera_fov_angle_degrees, run_data, overwritten, displayed>>

\* the state of the generator under construction
gen_vars == <<kind, number_of_steps, max_step, start_position, steps, route,
              drawn_steps, number_of_turns, turn_start_times, turns_applied,
              stop_elevation_time>>

\* the state a Simulator adds to that of its UAV
sim_vars == <<simulator, target_route, uav_ground_trace_route, uav_camera_fov_route,
              uav_camera_fov_radius, uav_camera_fov_angle_degrees, run_data,
              overwritten, displayed>>

----------------------------------------------------------------------------
(* Bounds of the model *)

\* the routes handed to a Simulator have at most MaxRouteLen positions
MaxRouteLen == 2
\* get_run_data is called at most MaxCalls times
MaxCalls == 2
\* |max_step| is drawn up to MaxMaxStep
MaxMaxStep == 2
\* number of different arrays np.random.uniform may return per configuration
NumSeeds == 2
\* random indices are drawn from the first/last IndexSpread values of their range
IndexSpread == 2
\* start_position coordinates are 0 or MaxCoord
MaxCoord == 5

(* Program constants *)

\* Movable3D._insert_turns: int(self.number_of_steps/100), number_of_steps >= 100
TurnCountDivisor == 100
\* Movable3D._insert_turns: int(self.number_of_steps/50), number_of_steps > 50
TurnDurationDivisor == 50
\* Movable3D._insert_turns: self.steps[...] *= 3
TurnFactor == 3
\* Movable3D._set_maximum_height: int(self.number_of_steps/2)
HeightDivisor == 2

----------------------------------------------------------------------------
(* Helpers *)

X == 1
Y == 2
Z == 3

\* Python's int(a / b), b # 0: true division, truncated toward zero
PyIntDiv(a, b) ==
    LET q == (IF a >= 0 THEN a ELSE -a) \div (IF b >= 0 THEN b ELSE -b)
    IN  IF (a >= 0) = (b >= 0) THEN q ELSE -q

Min(a, b) == IF a <= b THEN a ELSE b
Max(a, b) == IF a >= b THEN a ELSE b

Vec(x, y, z) == <<x, y, z>>
VecAdd(p, q) == <<p[X] + q[X], p[Y] + q[Y], p[Z] + q[Z]>>

\* the sample of a half-open index range [0, high) the model explores
IndexSample(high) ==
    {i \in 0..(high - 1) : i < IndexSpread \/ i >= high - IndexSpread}

----------------------------------------------------------------------------
(* np.random *)

\* one value of np.random.uniform(0.0, max_step): for max_step < 0 numpy draws
\* from [max_step, 0] without raising
UniformValue(seed, i, a, ms) ==
    LET w == (IF ms >= 0 THEN ms ELSE -ms) + 1
        v == (seed * i * i + a * (i + seed) + (i \div 3)) % w
    IN  IF ms >= 0 THEN v ELSE -v

\* np.random.uniform(0.0, ms, size=(n, cols)), padded with zero columns as
\* np.c_[..., np.zeros((n, 1))] does for a GroundTarget
UniformArray(seed, n, cols, ms) ==
    [i \in 1..n |-> [a \in 1..3 |-> IF a <= cols THEN UniformValue(seed, i, a, ms)
                                     ELSE 0]]

\* np.random.randint(0, high) raises ValueError("low >= high") unless high > 0
RandintRaises(high) == high <= 0

----------------------------------------------------------------------------
(* Movable3D *)

\* columns np.random.uniform fills: all three for a UAV, x and y for a GroundTarget
DrawnColumns(k) == IF k = "GroundTarget" THEN 2 ELSE 3

\* the turn count drawn from a range that includes int(number_of_steps/100)
TurnCountHighInclusive(n) ==
    IF n >= TurnCountDivisor THEN PyIntDiv(n, TurnCountDivisor) + 1 ELSE 0

\* upper bound handed to np.random.randint for the number of turns
TurnCountHigh(n) == IF n >= TurnCountDivisor THEN PyIntDiv(n, TurnCountDivisor) ELSE 0

\* turn_duration
TurnDuration(n) == IF n > TurnDurationDivisor THEN PyIntDiv(n, TurnDurationDivisor) ELSE 1

\* the slice t:(t + d) taken with its end included
SliceRowsClosed(n, t, d) == {i \in 1..n : t <= i - 1 /\ i - 1 <= t + d}

\* the rows a slice [t:(t + d)] of an array of n rows selects (TLA+ indices)
SliceRows(n, t, d) == {i \in 1..n : t <= i - 1 /\ i - 1 < t + d}

\* one iteration of the loop of _insert_turns
InsertTurn(st, t, d, left_or_right) ==
    LET rows == SliceRows(Len(st), t, d)
        zeroed == left_or_right + 1
        tripled == (1 - left_or_right) + 1
    IN  [i \in 1..Len(st) |->
            IF i \in rows
            THEN [a \in 1..3 |-> IF a = zeroed THEN 0
                                 ELSE IF a = tripled THEN st[i][a] * TurnFactor
                                 ELSE 0]
            ELSE st[i]]

\* the running sums acc + st[lo], acc + st[lo] + st[lo + 1], ... up to row hi
\* (np.cumsum over rows lo..hi, computed by halves to keep the evaluation shallow)
RECURSIVE CumSumFrom(_, _, _, _)
CumSumFrom(st, lo, hi, acc) ==
    IF lo > hi THEN <<>>
    ELSE IF lo = hi THEN <<VecAdd(acc, st[lo])>>
    ELSE LET mid == (lo + hi) \div 2
             left == CumSumFrom(st, lo, mid, acc)
         IN  left \o CumSumFrom(st, mid + 1, hi, left[Len(left)])

\* the route formed as np.cumsum(self.steps, axis=0), the start position forgotten
RouteOfWithoutStart(sp, st) == CumSumFrom(st, 1, Len(st), Vec(0, 0, 0))

\* self.start_position + np.cumsum(self.steps, axis=0)
RouteOf(sp, st) == CumSumFrom(st, 1, Len(st), sp)

\* the capping written as self.route[(stop + 1):] = self.route[stop]: whole rows
CapHeightWholeRow(r, stop) ==
    [i \in 1..Len(r) |-> IF i - 1 >= stop + 1 THEN r[stop + 1] ELSE r[i]]

\* the capping written as self.route[(stop + 2):, 2] = self.route[stop, 2]
CapHeightLate(r, stop) ==
    [i \in 1..Len(r) |-> IF i - 1 >= stop + 2 THEN <<r[i][X], r[i][Y], r[stop + 1][Z]>>
                         ELSE r[i]]

\* self.route[(stop + 1):, 2] = self.route[stop, 2]
CapHeight(r, stop) ==
    [i \in 1..Len(r) |-> IF i - 1 >= stop + 1 THEN <<r[i][X], r[i][Y], r[stop + 1][Z]>>
                         ELSE r[i]]

----------------------------------------------------------------------------
(* numpy arithmetic on fixed-point numbers *)

\* one length unit
Scale == 1000

\* Scale * sin of 0, 10, ..., 90 degrees
SinTable == <<0, 174, 342, 500, 643, 766, 866, 940, 985, 1000>>

\* Scale * np.sin(np.deg2rad(deg)), deg a multiple of 10
Sin(deg) ==
    LET d == deg % 360
    IN  IF d <= 90 THEN SinTable[(d \div 10) + 1]
        ELSE IF d <= 180 THEN SinTable[((180 - d) \div 10) + 1]
        ELSE IF d <= 270 THEN -SinTable[((d - 180) \div 10) + 1]
        ELSE -SinTable[((360 - d) \div 10) + 1]

\* Scale * np.cos(np.deg2rad(deg)), deg a multiple of 10
Cos(deg) == Sin(deg + 90)

\* Scale * np.tan(np.deg2rad(angle)) for the camera angles the model explores
Tan(angle) ==
    CASE angle = 0 -> 0
      [] angle = 45 -> 1000
      [] angle = 70 -> 2747
      [] angle = 80 -> 5671

\* the product of two fixed-point numbers
FixMul(a, b) == PyIntDiv(a * b, Scale)

Abs(a) == IF a >= 0 THEN a ELSE -a

RECURSIVE SumOver(_, _)
SumOver(v, i) == IF i = 0 THEN 0 ELSE v[i] + SumOver(v, i - 1)

\* np.sum of a vector
Sum(v) == SumOver(v, Len(v))

\* p - q, component by component
VecSub(p, q) == [i \in 1..Len(p) |-> p[i] - q[i]]

\* np.sqrt(q): the non-negative real whose square is q, kept exact
Sqrt(q) == [sqrt_of |-> q]

\* s <= r for s = Sqrt(q) and a fixed-point number r
SqrtLeq(s, r) == r >= 0 /\ s.sqrt_of <= r * r

\* np.linalg.norm(v)
Norm(v) == Sqrt(Sum([i \in 1..Len(v) |-> v[i] * v[i]]))

\* np.min / np.max of a non-empty set of numbers
MinOf(S) == CHOOSE m \in S : \A x \in S : m <= x
MaxOf(S) == CHOOSE m \in S : \A x \in S : m >= x

----------------------------------------------------------------------------
(* Movable3D: the kinematic models of src/src/Movable3D.py *)

\* np.nan, the result of 0 / 0 on numpy floats
NaN == -999999999

\* floating-point arithmetic on fixed-point numbers; NaN propagates
FAdd(a, b) == IF a = NaN \/ b = NaN THEN NaN ELSE a + b
FSub(a, b) == IF a = NaN \/ b = NaN THEN NaN ELSE a - b
FMul(a, b) == IF a = NaN \/ b = NaN THEN NaN ELSE FixMul(a, b)
\* a times the plain integer k
FTimes(a, k) == IF a = NaN THEN NaN ELSE a * k
\* a / b on numpy floats; every division by zero of these models is 0 / 0
FDiv(a, b) == IF a = NaN \/ b = NaN \/ b = 0 THEN NaN ELSE PyIntDiv(a * Scale, b)

\* the largest r in lo..hi with r * r <= q
RECURSIVE ISqrtIn(_, _, _)
ISqrtIn(q, lo, hi) ==
    IF lo >= hi THEN lo
    ELSE LET mid == (lo + hi + 1) \div 2
         IN  IF mid * mid <= q THEN ISqrtIn(q, mid, hi) ELSE ISqrtIn(q, lo, mid - 1)

\* np.linalg.norm of a vector of fixed-point numbers, as a fixed-point number
FNorm(v) == ISqrtIn(Sum([i \in 1..Len(v) |-> v[i] * v[i]]), 0, 40000)

\* np.cross(v, [0, 0, 1])
CrossZ(v) == <<v[Y], -v[X], 0>>

\* Scale * sin and Scale * cos of 0, 0.5, 1, ..., 6 radians
SinRadTable == <<0, 479, 841, 997, 909, 598, 141, -351, -757, -978, -959, -706, -279>>
CosRadTable == <<1000, 878, 540, 71, -416, -801, -990, -936, -654, -211, 284, 709, 960>>

\* np.sin / np.cos of an angle in radians, a multiple of 0.5 in 0..6
SinRad(a) == IF a = NaN THEN NaN ELSE SinRadTable[(a \div (Scale \div 2)) + 1]
CosRad(a) == IF a = NaN THEN NaN ELSE CosRadTable[(a \div (Scale \div 2)) + 1]

\* the loop body of _set_linear_trajectory for step i
LinearPosition(start_point, direction, step_size, i) ==
    [a \in 1..3 |-> FAdd(start_point[a], FTimes(FMul(direction[a], step_size), i))]

\* center + np.array([radius * np.cos(angle), radius * np.sin(angle), 0])
OrbitPosition(center, radius, angle) ==
    <<FAdd(center[X], FMul(radius, CosRad(angle))),
      FAdd(center[Y], FMul(radius, SinRad(angle))),
      center[Z]>>

\* _set_linear_trajectory looping over range(num_steps + 1)
LinearTrajectoryExtraRow(start_point, end_point, velocity, duration, dt) ==
    LET num_steps == PyIntDiv(duration, dt)
        displacement == VecSub(end_point, start_point)
        norm == FNorm(displacement)
        direction == [a \in 1..3 |-> FDiv(displacement[a], norm)]
        step_size == FixMul(velocity, dt)
    IN  [i \in 1..(num_steps + 1) |->
            LinearPosition(start_point, direction, step_size, i - 1)]

\* _set_linear_trajectory computing position[i] with i + 1 in place of i
LinearTrajectoryFromOne(start_point, end_point, velocity, duration, dt) ==
    LET num_steps == PyIntDiv(duration, dt)
        displacement == VecSub(end_point, start_point)
        norm == FNorm(displacement)
        direction == [a \in 1..3 |-> FDiv(displacement[a], norm)]
        step_size == FixMul(velocity, dt)
    IN  [i \in 1..num_steps |-> LinearPosition(start_point, direction, step_size, i)]

\* the route _set_linear_trajectory computes
LinearTrajectory(start_point, end_point, velocity, duration, dt) ==
    LET num_steps == PyIntDiv(duration, dt)
        displacement == VecSub(end_point, start_point)
        norm == FNorm(displacement)
        direction == [a \in 1..3 |-> FDiv(displacement[a], norm)]
        step_size == FixMul(velocity, dt)
    IN  [i \in 1..num_steps |-> LinearPosition(start_point, direction, step_size, i - 1)]

\* _simulate_orbit with np.cos and np.sin exchanged
OrbitTrajectorySwapped(center, radius, velocity, duration, dt) ==
    LET num_steps == PyIntDiv(duration, dt)
        angular_velocity == FDiv(velocity, radius)
        angle(i) == FMul(FTimes(angular_velocity, i), dt)
    IN  [i \in 1..num_steps |->
            <<FAdd(center[X], FMul(radius, SinRad(angle(i - 1)))),
              FAdd(center[Y], FMul(radius, CosRad(angle(i - 1)))),
              center[Z]>>]

\* the route _simulate_orbit computes
OrbitTrajectory(center, radius, velocity, duration, dt) ==
    LET num_steps == PyIntDiv(duration, dt)
        angular_velocity == FDiv(velocity, radius)
    IN  [i \in 1..num_steps |->
            OrbitPosition(center, radius, FMul(FTimes(angular_velocity, i - 1), dt))]

\* (1 - i / num_steps) * position_start + (i / num_steps) * position_end
Interpolate(position_start, position_end, i, num_steps) ==
    LET f == FDiv(i * Scale, num_steps * Scale)
    IN  [a \in 1..3 |-> FAdd(FMul(Scale - f, position_start[a]), FMul(f, position_end[a]))]

\* _simulate_spiral_orbit interpolating from the end orbit to the start orbit
SpiralTrajectoryFromEnd(start_point, end_point, center, duration, dt) ==
    LET num_steps == PyIntDiv(duration, dt)
        displacement_start == VecSub(start_point, center)
        displacement_end == VecSub(end_point, center)
        radius_start == FNorm(displacement_start)
        radius_end == FNorm(displacement_end)
        angular_velocity_start == FDiv(FNorm(CrossZ(displacement_start)), radius_start)
        angular_velocity_end == FDiv(FNorm(CrossZ(displacement_end)), radius_end)
        position_start(i) ==
            OrbitPosition(center, radius_start, FMul(FTimes(angular_velocity_start, i), dt))
        position_end(i) ==
            OrbitPosition(center, radius_end, FMul(FTimes(angular_velocity_end, i), dt))
    IN  [i \in 1..num_steps |->
            Interpolate(position_end(i - 1), position_start(i - 1), i - 1, num_steps)]

\* the route _simulate_spiral_orbit computes
SpiralTrajectory(start_point, end_point, center, duration, dt) ==
    LET num_steps == PyIntDiv(duration, dt)
        displacement_start == VecSub(start_point, center)
        displacement_end == VecSub(end_point, center)
        radius_start == FNorm(displacement_start)
        radius_end == FNorm(displacement_end)
        angular_velocity_start == FDiv(FNorm(CrossZ(displacement_start)), radius_start)
        angular_velocity_end == FDiv(FNorm(CrossZ(displacement_end)), radius_end)
        position_start(i) ==
            OrbitPosition(center, radius_start, FMul(FTimes(angular_velocity_start, i), dt))
        position_end(i) ==
            OrbitPosition(center, radius_end, FMul(FTimes(angular_velocity_end, i), dt))
    IN  [i \in 1..num_steps |->
            Interpolate(position_start(i - 1), position_end(i - 1), i - 1, num_steps)]

----------------------------------------------------------------------------
(* utilities *)

\* src/src/utilities.py
compute_euclidean_distance(point1, point2) == Norm(VecSub(point2, point1))

\* compute_manhattan_distance without np.abs
compute_manhattan_distance_signed(point1, point2) ==
    Sum([i \in 1..Len(point1) |-> point1[i] - point2[i]])

compute_manhattan_distance(point1, point2) ==
    Sum([i \in 1..Len(point1) |-> Abs(point1[i] - point2[i])])

\* src/utilities.py
compute_euclidean_distance_xy(point1, point2) ==
    Sqrt((point1[1] - point2[1]) * (point1[1] - point2[1])
         + (point1[2] - point2[2]) * (point1[2] - point2[2]))

----------------------------------------------------------------------------
(* Simulator *)

\* coordinates[:2]
FirstTwo(p) == <<p[1], p[2]>>

\* route.copy() without the assignment route[:, 2] = 0
WithHeightKept(r) == [i \in 1..Len(r) |-> <<r[i][X], r[i][Y], r[i][Z]>>]

\* route.copy() followed by route[:, 2] = 0
WithZeroHeight(r) == [i \in 1..Len(r) |-> <<r[i][X], r[i][Y], 0>>]

\* Simulator._calculate_fov_center(yaw, fov_angle)
calculate_fov_center(yaw, fov_angle) ==
    [displacement_x |-> FixMul(Tan(fov_angle), Sin(yaw)),
     displacement_y |-> FixMul(Tan(fov_angle), Cos(yaw))]

\* _initialize_uav_camera_fov taking the yaw of step i as (i + 1) * 10 degrees
CameraFovRouteYawFromOne(r, n, fov_angle) ==
    [i \in 1..Len(r) |->
        IF i - 1 < n
        THEN LET d == calculate_fov_center(i * 10, fov_angle)
             IN  <<r[i][X] + d.displacement_x, r[i][Y] + d.displacement_y, 0>>
        ELSE <<r[i][X], r[i][Y], 0>>]

\* Simulator._initialize_uav_camera_fov: the route it stores
CameraFovRoute(r, n, fov_angle) ==
    [i \in 1..Len(r) |->
        IF i - 1 < n
        THEN LET d == calculate_fov_center((i - 1) * 10, fov_angle)
             IN  <<r[i][X] + d.displacement_x, r[i][Y] + d.displacement_y, 0>>
        ELSE <<r[i][X], r[i][Y], 0>>]

\* the number of pairs zip(a, b) yields
ZipLen(a, b) == Min(Len(a), Len(b))

\* _compute_distances with a strict comparison against the radius
compute_distances_strict(target_r, fov_r, radius) ==
    LET n == ZipLen(target_r, fov_r)
        euclid(i) == compute_euclidean_distance(FirstTwo(target_r[i]), FirstTwo(fov_r[i]))
        manh(i) == compute_manhattan_distance(FirstTwo(target_r[i]), FirstTwo(fov_r[i]))
    IN  [camera_target_miss_hits |->
             [i \in 1..n |-> SqrtLeq(euclid(i), radius) /\ euclid(i) # Sqrt(radius * radius)],
         camera_target_euclidean_distance_from_fov_center |-> [i \in 1..n |-> euclid(i)],
         camera_target_manhattan_distance_from_fov_center |-> [i \in 1..n |-> manh(i)]]

\* Simulator._compute_distances (src/src/Simulator.py)
compute_distances(target_r, fov_r, radius) ==
    LET n == ZipLen(target_r, fov_r)
        euclid(i) == compute_euclidean_distance(FirstTwo(target_r[i]), FirstTwo(fov_r[i]))
        manh(i) == compute_manhattan_distance(FirstTwo(target_r[i]), FirstTwo(fov_r[i]))
    IN  [camera_target_miss_hits |-> [i \in 1..n |-> SqrtLeq(euclid(i), radius)],
         camera_target_euclidean_distance_from_fov_center |-> [i \in 1..n |-> euclid(i)],
         camera_target_manhattan_distance_from_fov_center |-> [i \in 1..n |-> manh(i)]]

\* Simulator._compute_euclidean_distances (src/Simulator.py)
compute_euclidean_distances(uav_r, fov_r, radius) ==
    LET n == ZipLen(uav_r, fov_r)
        euclid(i) == compute_euclidean_distance_xy(FirstTwo(uav_r[i]), FirstTwo(fov_r[i]))
    IN  [camera_target_miss_hits |-> [i \in 1..n |-> SqrtLeq(euclid(i), radius)],
         camera_target_distance_from_FOV_center |-> [i \in 1..n |-> euclid(i)]]

\* the z column of a route
Heights(r) == {r[i][Z] : i \in 1..Len(r)}

\* Simulator._construct_run_data_uav (src/src/Simulator.py)
construct_run_data_uav ==
    LET d == compute_distances(target_route, uav_camera_fov_route, uav_camera_fov_radius)
    IN  [route |-> route,
         min_height |-> MinOf(Heights(route)),
         max_height |-> MaxOf(Heights(route)),
         ground_trace_route |-> uav_ground_trace_route,
         camera_fov_center |-> uav_camera_fov_route,
         camera_fov_radius |-> uav_camera_fov_radius,
         camera_fov_angle_degrees |-> uav_camera_fov_angle_degrees,
         camera_target_miss_hits |-> d.camera_target_miss_hits,
         camera_target_euclidean_distance_from_fov_center |->
             d.camera_target_euclidean_distance_from_fov_center,
         camera_target_manhattan_distance_from_fov_center |->
             d.camera_target_manhattan_distance_from_fov_center]

\* Simulator._construct_run_data_UAV (src/Simulator.py)
construct_run_data_UAV ==
    LET d == compute_euclidean_distances(route, uav_camera_fov_route, uav_camera_fov_radius)
    IN  [route |-> route,
         min_height |-> MinOf(Heights(route)),
         max_height |-> MaxOf(Heights(route)),
         ground_trace_route |-> uav_ground_trace_route,
         camera_FOV_center |-> uav_camera_fov_route,
         camera_FOV_radius |-> uav_camera_fov_radius,
         camera_FOV_angle_degrees |-> uav_camera_fov_angle_degrees,
         camera_target_miss_hits |-> d.camera_target_miss_hits,
         camera_target_distance_from_FOV_center |->
             d.camera_target_distance_from_FOV_center]

\* Simulator._construct_run_data_target
construct_run_data_target == [route |-> target_route]

----------------------------------------------------------------------------
(* The inputs the model explores *)

NumberOfStepsValues == {-1, 0, 50, 99, 100, 200, 300}

MaxStepValues == {-1, 0, MaxMaxStep}

StartPositions == {Vec(0, 0, 0), Vec(MaxCoord, 0, MaxCoord)}

Kinds == {"UAV", "GroundTarget"}

Simulators == {"Simulator", "Simulator_1_8"}

\* <<start_point, end_point, velocity, duration, dt>> of _set_linear_trajectory
LinearInputs ==
    {<<Vec(0, 0, 0), Vec(10 * Scale, 0, 0), Scale, 5 * Scale, Scale>>,
     <<Vec(Scale, Scale, Scale), Vec(Scale, Scale, Scale), Scale, 3 * Scale, Scale>>,
     <<Vec(Scale, Scale, Scale), Vec(4 * Scale, 5 * Scale, Scale), 5 * Scale,
       2 * Scale + Scale \div 2, Scale>>,
     <<Vec(0, 0, 0), Vec(3 * Scale, 4 * Scale, 0), 5 * Scale, Scale, 0>>,
     <<Vec(0, 0, 0), Vec(3 * Scale, 4 * Scale, 0), 5 * Scale, -Scale, Scale>>,
     <<Vec(0, 0, 0), Vec(0, 0, 3 * Scale), Scale, 3 * Scale, Scale>>}

\* <<center, radius, velocity, duration, dt>> of _simulate_orbit
OrbitInputs ==
    {<<Vec(0, 0, 0), 5 * Scale, 5 * Scale, 6283, Scale>>,
     <<Vec(Scale, 2 * Scale, 3 * Scale), 2 * Scale, Scale, 3 * Scale, Scale>>,
     <<Vec(0, 0, 0), 0, Scale, 2 * Scale, Scale>>}

\* <<start_point, end_point, center, duration, dt>> of _simulate_spiral_orbit
SpiralInputs ==
    {<<Vec(5 * Scale, 0, 0), Vec(Scale, 0, 0), Vec(0, 0, 0), 4 * Scale, Scale>>,
     <<Vec(0, 0, 0), Vec(4 * Scale, 0, 0), Vec(0, 0, 0), 2 * Scale, Scale>>,
     <<Vec(4 * Scale, 0, 0), Vec(0, 0, 0), Vec(0, 0, 0), 2 * Scale, Scale>>,
     <<Vec(0, 4 * Scale, Scale), Vec(0, 2 * Scale, Scale), Vec(0, 0, Scale),
       2 * Scale, Scale>>}

FovAngles == {0, 45, 80}

FovRadii == {-Scale, 0, Scale, 5 * Scale}

\* all sequences of at most MaxRouteLen elements of S
RoutesOver(S) == UNION {[1..l -> S] : l \in 0..MaxRouteLen}

\* the routes of the UAV a Simulator constructs
UavRoutes ==
    RoutesOver({Vec(0, 0, 0), Vec(0, 0, 2 * Scale), Vec(3 * Scale, 0, Scale)})

\* the routes of the ground target a Simulator constructs
TargetRoutes ==
    UNION {RoutesOver({Vec(0, 0, z), Vec(3 * Scale, 4 * Scale, z)}) : z \in {0, Scale}}

----------------------------------------------------------------------------
(* The animated plot *)

\* r[start:stop] of numpy: a negative index counts from the end, and both ends are
\* clipped to the array
PySlice(r, start, stop) ==
    LET n == Len(r)
        clip(i) == IF i < 0 THEN Max(i + n, 0) ELSE Min(i, n)
    IN  SubSeq(r, clip(start) + 1, clip(stop))

\* the artists as visualize() creates them: empty lines, no target in the FOV panel,
\* the circle of _set_up_camera_fov at (0, 0)
NoDisplay ==
    [current_number |-> -1,
     uav |-> <<>>, target |-> <<>>, uav_ground_trace |-> <<>>,
     camera_fov |-> <<0, 0>>,
     target_rescaled |-> <<>>,
     uav_trail |-> <<>>, target_trail |-> <<>>, uav_ground_trace_trail |-> <<>>]

\* the markers _update_trajectories sets for frame current_number: trajectories[:-5]
\* zipped with self.routes
Markers(current_number) ==
    [uav |-> PySlice(route, current_number - 1, current_number),
     target |-> PySlice(target_route, current_number - 1, current_number),
     uav_ground_trace |->
         PySlice(uav_ground_trace_route, current_number - 1, current_number)]

\* the trails _update_trajectories sets for frame current_number
Trails(current_number) ==
    [uav_trail |-> PySlice(route, 0, current_number - 1),
     target_trail |-> PySlice(target_route, 0, current_number - 1),
     uav_ground_trace_trail |-> PySlice(uav_ground_trace_route, 0, current_number - 1)]

\* the target position in the FOV panel for frame current_number
TargetRescaled(current_number) ==
    LET t == target_route[current_number + 1]
        c == uav_camera_fov_route[current_number + 1]
    IN  <<FDiv(FSub(t[X], c[X]), uav_camera_fov_radius),
          FDiv(FSub(t[Y], c[Y]), uav_camera_fov_radius)>>

----------------------------------------------------------------------------
(* State machine *)

Init ==
    /\ pc = "new"
    /\ kind = "none"
    /\ number_of_steps = 0
    /\ max_step = 0
    /\ start_position = Vec(0, 0, 0)
    /\ steps = <<>>
    /\ route = <<>>
    /\ drawn_steps = <<>>
    /\ number_of_turns = -1
    /\ turn_start_times = <<>>
    /\ turns_applied = <<>>
    /\ stop_elevation_time = -1
    /\ error = ""
    /\ simulator = "none"
    /\ target_route = <<>>
    /\ uav_ground_trace_route = <<>>
    /\ uav_camera_fov_route = <<>>
    /\ uav_camera_fov_radius = 0
    /\ uav_camera_fov_angle_degrees = 0
    /\ run_data = <<>>
    /\ overwritten = {}
    /\ displayed = NoDisplay

\* Movable3D.__init__ up to the call of _initialize_route
Construct(k, n, ms, sp) ==
    /\ pc = "new"
    /\ kind' = k
    /\ number_of_steps' = n
    /\ max_step' = ms
    /\ start_position' = sp
    /\ steps' = <<>>
    /\ route' = <<>>
    /\ pc' = "draw_steps"
    /\ UNCHANGED <<drawn_steps, number_of_turns, turn_start_times, turns_applied,
                   stop_elevation_time, error>>
    /\ UNCHANGED sim_vars

\* UAV._initialize_route / GroundTarget._initialize_route: the np.random.uniform line
DrawSteps ==
    /\ pc = "draw_steps"
    /\ IF number_of_steps < 0
       THEN \* ValueError: negative dimensions are not allowed
            /\ pc' = "raised"
            /\ error' = "ValueError"
            /\ UNCHANGED <<steps, drawn_steps>>
       ELSE \E seed \in 1..NumSeeds :
            /\ steps' = UniformArray(seed, number_of_steps, DrawnColumns(kind), max_step)
            /\ drawn_steps' = steps'
            /\ pc' = "insert_turns"
            /\ error' = error
    /\ UNCHANGED <<kind, number_of_steps, max_step, start_position, route,
                   number_of_turns, turn_start_times, turns_applied,
                   stop_elevation_time>>
    /\ UNCHANGED sim_vars

\* Movable3D._insert_turns up to its loop
DrawTurns ==
    /\ pc = "insert_turns"
    /\ IF RandintRaises(TurnCountHigh(number_of_steps))
       THEN /\ pc' = "raised"
            /\ error' = "ValueError"
            /\ UNCHANGED <<number_of_turns, turn_start_times>>
       ELSE \E k \in 0..(TurnCountHigh(number_of_steps) - 1) :
            /\ number_of_turns' = k
            /\ error' = error
            /\ IF k = 0
               THEN /\ pc' = "form_route"
                    /\ turn_start_times' = <<>>
               ELSE /\ pc' = "turn_loop"
                    /\ turn_start_times' \in [1..k -> IndexSample(number_of_steps)]
    /\ UNCHANGED <<kind, number_of_steps, max_step, start_position, steps, route,
                   drawn_steps, turns_applied, stop_elevation_time>>
    /\ UNCHANGED sim_vars

\* Movable3D._insert_turns: one iteration of the loop over turn_start_times
ApplyTurn ==
    /\ pc = "turn_loop"
    /\ turn_start_times # <<>>
    /\ \E left_or_right \in 0..1 :
        /\ steps' = InsertTurn(steps, Head(turn_start_times),
                               TurnDuration(number_of_steps), left_or_right)
        /\ turns_applied' = Append(turns_applied, <<Head(turn_start_times), left_or_right>>)
    /\ turn_start_times' = Tail(turn_start_times)
    /\ pc' = IF Tail(turn_start_times) = <<>> THEN "form_route" ELSE "turn_loop"
    /\ UNCHANGED <<kind, number_of_steps, max_step, start_position, route,
                   drawn_steps, number_of_turns, stop_elevation_time, error>>
    /\ UNCHANGED sim_vars

\* Movable3D._initialize_route: the cumulative sum
FormRoute ==
    /\ pc = "form_route"
    /\ route' = RouteOf(start_position, steps)
    /\ pc' = IF kind = "UAV" THEN "set_maximum_height" ELSE "done"
    /\ UNCHANGED <<kind, number_of_steps, max_step, start_position, steps,
                   drawn_steps, number_of_turns, turn_start_times, turns_applied,
                   stop_elevation_time, error>>
    /\ UNCHANGED sim_vars

\* Movable3D._set_maximum_height, called by UAV._initialize_route
SetMaximumHeight ==
    /\ pc = "set_maximum_height"
    /\ IF RandintRaises(PyIntDiv(number_of_steps, HeightDivisor))
       THEN /\ pc' = "raised"
            /\ error' = "ValueError"
            /\ UNCHANGED <<route, stop_elevation_time>>
       ELSE \E stop \in IndexSample(PyIntDiv(number_of_steps, HeightDivisor)) :
            /\ stop_elevation_time' = stop
            /\ route' = CapHeight(route, stop)
            /\ pc' = "done"
            /\ error' = error
    /\ UNCHANGED <<kind, number_of_steps, max_step, start_position, steps,
                   drawn_steps, number_of_turns, turn_start_times, turns_applied>>
    /\ UNCHANGED sim_vars

\* np.zeros((num_steps, 3)) after num_steps = int(duration / dt): what it raises
NumStepsError(duration, dt) ==
    IF dt = 0 THEN "ZeroDivisionError"
    ELSE IF PyIntDiv(duration, dt) < 0 THEN "ValueError"
    ELSE ""

\* _set_linear_trajectory followed by the altitude capping of the random walk
SetLinearTrajectoryCapped(start_point, end_point, velocity, duration, dt) ==
    /\ pc = "done"
    /\ IF NumStepsError(duration, dt) # ""
       THEN /\ error' = NumStepsError(duration, dt)
            /\ UNCHANGED <<route, number_of_steps>>
       ELSE /\ route' = CapHeight(
                   LinearTrajectory(start_point, end_point, velocity, duration, dt),
                   Max(stop_elevation_time, 0))
            /\ number_of_steps' = PyIntDiv(duration, dt)
            /\ error' = ""
    /\ pc' = pc
    /\ UNCHANGED <<kind, max_step, start_position, steps, drawn_steps, number_of_turns,
                   turn_start_times, turns_applied, stop_elevation_time>>
    /\ UNCHANGED sim_vars

\* Movable3D._set_linear_trajectory
SetLinearTrajectory(start_point, end_point, velocity, duration, dt) ==
    /\ pc = "done"
    /\ IF NumStepsError(duration, dt) # ""
       THEN /\ error' = NumStepsError(duration, dt)
            /\ UNCHANGED <<route, number_of_steps>>
       ELSE /\ route' = LinearTrajectory(start_point, end_point, velocity, duration, dt)
            /\ number_of_steps' = PyIntDiv(duration, dt)
            /\ error' = ""
    /\ pc' = pc
    /\ UNCHANGED <<kind, max_step, start_position, steps, drawn_steps, number_of_turns,
                   turn_start_times, turns_applied, stop_elevation_time>>
    /\ UNCHANGED sim_vars

\* Movable3D._simulate_orbit
SimulateOrbit(center, radius, velocity, duration, dt) ==
    /\ pc = "done"
    /\ IF NumStepsError(duration, dt) # ""
       THEN /\ error' = NumStepsError(duration, dt)
            /\ UNCHANGED <<route, number_of_steps>>
       ELSE IF radius = 0
       THEN \* velocity / radius on Python numbers
            /\ error' = "ZeroDivisionError"
            /\ UNCHANGED <<route, number_of_steps>>
       ELSE /\ route' = OrbitTrajectory(center, radius, velocity, duration, dt)
            /\ number_of_steps' = PyIntDiv(duration, dt)
            /\ error' = ""
    /\ pc' = pc
    /\ UNCHANGED <<kind, max_step, start_position, steps, drawn_steps, number_of_turns,
                   turn_start_times, turns_applied, stop_elevation_time>>
    /\ UNCHANGED sim_vars

\* Movable3D._simulate_spiral_orbit
SimulateSpiralOrbit(start_point, end_point, center, duration, dt) ==
    /\ pc = "done"
    /\ IF NumStepsError(duration, dt) # ""
       THEN /\ error' = NumStepsError(duration, dt)
            /\ UNCHANGED <<route, number_of_steps>>
       ELSE /\ route' = SpiralTrajectory(start_point, end_point, center, duration, dt)
            /\ number_of_steps' = PyIntDiv(duration, dt)
            /\ error' = ""
    /\ pc' = pc
    /\ UNCHANGED <<kind, max_step, start_position, steps, drawn_steps, number_of_turns,
                   turn_start_times, turns_applied, stop_elevation_time>>
    /\ UNCHANGED sim_vars

\* Simulator.__init__ up to the call of _initialize_uav
SimulatorInit(which, angle, radius) ==
    /\ pc = "new"
    /\ simulator' = which
    /\ uav_camera_fov_angle_degrees' = angle
    /\ uav_camera_fov_radius' = radius
    /\ uav_ground_trace_route' = <<>>
    /\ uav_camera_fov_route' = <<>>
    /\ pc' = "initialize_uav"
    /\ UNCHANGED <<target_route, run_data, overwritten, error>>
    /\ UNCHANGED <<gen_vars, displayed>>

\* Simulator._initialize_uav: the UAV it constructs, given by the route it got
InitializeUav(r) ==
    /\ pc = "initialize_uav"
    /\ kind' = "UAV"
    /\ route' = r
    /\ number_of_steps' = Len(r)
    /\ pc' = "initialize_uav_ground_trace"
    /\ UNCHANGED <<max_step, start_position, steps, drawn_steps, number_of_turns,
                   turn_start_times, turns_applied, stop_elevation_time, error>>
    /\ UNCHANGED sim_vars

\* Simulator._initialize_uav_ground_trace
InitializeUavGroundTrace ==
    /\ pc = "initialize_uav_ground_trace"
    /\ uav_ground_trace_route' = WithZeroHeight(route)
    /\ pc' = "initialize_uav_camera_fov"
    /\ UNCHANGED <<simulator, target_route, uav_camera_fov_route, uav_camera_fov_radius,
                   uav_camera_fov_angle_degrees, run_data, overwritten, error>>
    /\ UNCHANGED <<gen_vars, displayed>>

\* Simulator._initialize_uav_camera_fov
InitializeUavCameraFov ==
    /\ pc = "initialize_uav_camera_fov"
    /\ uav_camera_fov_route' =
           CameraFovRoute(route, number_of_steps, uav_camera_fov_angle_degrees)
    /\ pc' = "initialize_ground_target"
    /\ UNCHANGED <<simulator, target_route, uav_ground_trace_route, uav_camera_fov_radius,
                   uav_camera_fov_angle_degrees, run_data, overwritten, error>>
    /\ UNCHANGED <<gen_vars, displayed>>

\* Simulator._initialize_ground_target: the target it constructs, given by its route
InitializeGroundTarget(r) ==
    /\ pc = "initialize_ground_target"
    /\ target_route' = r
    /\ pc' = "ready"
    /\ UNCHANGED <<simulator, uav_ground_trace_route, uav_camera_fov_route,
                   uav_camera_fov_radius, uav_camera_fov_angle_degrees, run_data,
                   overwritten, error>>
    /\ UNCHANGED <<gen_vars, displayed>>

\* Simulator.get_run_data
GetRunData ==
    /\ pc = "ready"
    /\ Len(run_data) < MaxCalls
    /\ IF route = <<>>
       THEN \* np.min of an empty array: ValueError
            /\ error' = "ValueError"
            /\ run_data' = run_data
       ELSE /\ error' = ""
            /\ run_data' = Append(run_data,
                   IF simulator = "Simulator_1_8"
                   THEN [UAV |-> construct_run_data_uav, target |-> construct_run_data_target]
                   ELSE [UAV |-> construct_run_data_UAV, target |-> construct_run_data_target])
    /\ pc' = pc
    /\ UNCHANGED <<simulator, target_route, uav_ground_trace_route, uav_camera_fov_route,
                   uav_camera_fov_radius, uav_camera_fov_angle_degrees, overwritten>>
    /\ UNCHANGED <<gen_vars, displayed>>

\* the routes of a returned record: 'route', 'ground_trace_route' and the camera FOV
\* center of run_data['UAV'], and 'route' of run_data['target']
ReturnedRoutes == {"route", "ground_trace_route", "camera_fov_center", "target"}

\* get_run_data returning self.target.route itself, without .copy()
ReturnedTargetRouteShared == {"target"}

\* the returned routes that share their storage with a route of the simulator: none,
\* _construct_run_data_uav and _construct_run_data_target return each through .copy()
ReturnedRoutesShared == {}

\* the position the caller writes into a returned route
OverwritingPosition == Vec(-Scale, -Scale, -Scale)

\* r after r[0] = OverwritingPosition on the returned array `name`, where r is the
\* simulator's route the array was taken from
AfterOverwrite(name, r) ==
    IF name \in ReturnedRoutesShared /\ r # <<>>
    THEN [r EXCEPT ![1] = OverwritingPosition]
    ELSE r

\* the caller overwrites the first position of a route of the record get_run_data
\* returned last
OverwriteReturnedRoute(name) ==
    /\ pc = "ready"
    /\ run_data # <<>>
    /\ overwritten = {}
    /\ overwritten' = {<<name, Len(run_data)>>}
    /\ route' = IF name = "route" THEN AfterOverwrite(name, route) ELSE route
    /\ uav_ground_trace_route' =
           IF name = "ground_trace_route"
           THEN AfterOverwrite(name, uav_ground_trace_route)
           ELSE uav_ground_trace_route
    /\ uav_camera_fov_route' =
           IF name = "camera_fov_center"
           THEN AfterOverwrite(name, uav_camera_fov_route)
           ELSE uav_camera_fov_route
    /\ target_route' = IF name = "target" THEN AfterOverwrite(name, target_route)
                       ELSE target_route
    /\ pc' = pc
    /\ UNCHANGED <<simulator, uav_camera_fov_radius, uav_camera_fov_angle_degrees,
                   run_data, error, displayed>>
    /\ UNCHANGED <<kind, number_of_steps, max_step, start_position, steps, drawn_steps,
                   number_of_turns, turn_start_times, turns_applied, stop_elevation_time>>

Next ==
    \/ \E k \in Kinds, n \in NumberOfStepsValues, ms \in MaxStepValues,
          sp \in StartPositions : Construct(k, n, ms, sp)
    \/ DrawSteps
    \/ DrawTurns
    \/ ApplyTurn
    \/ FormRoute
    \/ SetMaximumHeight
    \/ \E which \in Simulators, angle \in FovAngles, radius \in FovRadii :
          SimulatorInit(which, angle, radius)
    \/ \E r \in UavRoutes : InitializeUav(r)
    \/ InitializeUavGroundTrace
    \/ InitializeUavCameraFov
    \/ \E r \in TargetRoutes : InitializeGroundTarget(r)
    \/ GetRunData
    \/ \E name \in ReturnedRoutes : OverwriteReturnedRoute(name)

Spec == Init /\ [][Next]_vars

----------------------------------------------------------------------------
(* The generator with its kinematic models: they are called on a generator *)
(* its constructor has returned.                                           *)

\* the number_of_steps this specification constructs generators with
KinematicStepsValues == {100, 200}

NextKinematic ==
    \/ \E k \in Kinds, n \in KinematicStepsValues, ms \in MaxStepValues,
          sp \in StartPositions : Construct(k, n, ms, sp)
    \/ DrawSteps
    \/ DrawTurns
    \/ ApplyTurn
    \/ FormRoute
    \/ SetMaximumHeight
    \/ \E in \in LinearInputs : SetLinearTrajectory(in[1], in[2], in[3], in[4], in[5])
    \/ \E in \in OrbitInputs : SimulateOrbit(in[1], in[2], in[3], in[4], in[5])
    \/ \E in \in SpiralInputs : SimulateSpiralOrbit(in[1], in[2], in[3], in[4], in[5])

SpecKinematic == Init /\ [][NextKinematic]_vars

----------------------------------------------------------------------------
(* The Simulator constructed with uav_start_position / target_start_position *)

\* a route moved by a start position: start_position + np.cumsum(steps), r being the
\* cumulative sum
RouteFrom(sp, r) == [i \in 1..Len(r) |-> VecAdd(sp, r[i])]

\* Simulator._initialize_uav(uav_start_position), uav_start_position not None; r is the
\* cumulative displacement of the UAV it constructs.  src/Simulator.py constructs
\* UAV(start_position=uav_start_position); src/src/Simulator.py constructs the UAV
\* without it and assigns self.uav.start_position afterwards
InitializeUavAt(r, uav_start_position) ==
    /\ pc = "initialize_uav"
    /\ kind' = "UAV"
    /\ start_position' = uav_start_position
    /\ route' = IF simulator = "Simulator" THEN RouteFrom(uav_start_position, r) ELSE r
    /\ number_of_steps' = Len(r)
    /\ pc' = "initialize_uav_ground_trace"
    /\ UNCHANGED <<max_step, steps, drawn_steps, number_of_turns, turn_start_times,
                   turns_applied, stop_elevation_time, error>>
    /\ UNCHANGED sim_vars

\* Simulator._initialize_ground_target(target_start_position), target_start_position
\* not None, and the rest of Simulator.__init__.  src/Simulator.py constructs
\* GroundTarget(start_position=target_start_position); src/src/Simulator.py assigns
\* self.target = target_start_position, and self.target.route in __init__ then raises
\* AttributeError
InitializeGroundTargetAt(r, target_start_position) ==
    /\ pc = "initialize_ground_target"
    /\ IF simulator = "Simulator"
       THEN /\ target_route' = RouteFrom(target_start_position, r)
            /\ pc' = "ready"
            /\ error' = error
       ELSE /\ target_route' = target_route
            /\ pc' = "raised"
            /\ error' = "AttributeError"
    /\ UNCHANGED <<simulator, uav_ground_trace_route, uav_camera_fov_route,
                   uav_camera_fov_radius, uav_camera_fov_angle_degrees, run_data,
                   overwritten>>
    /\ UNCHANGED <<gen_vars, displayed>>

\* the start positions handed to a Simulator
SimulatorStartPositions ==
    {Vec(MaxCoord * Scale, 0, 0), Vec(Scale, 2 * Scale, MaxCoord * Scale)}

NextStart ==
    \/ \E which \in Simulators : SimulatorInit(which, 45, Scale)
    \/ \E r \in UavRoutes : InitializeUav(r)
    \/ \E r \in UavRoutes, sp \in SimulatorStartPositions : InitializeUavAt(r, sp)
    \/ InitializeUavGroundTrace
    \/ InitializeUavCameraFov
    \/ \E r \in TargetRoutes : InitializeGroundTarget(r)
    \/ \E r \in TargetRoutes, sp \in SimulatorStartPositions :
          InitializeGroundTargetAt(r, sp)
    \/ GetRunData

SpecStart == Init /\ [][NextStart]_vars

----------------------------------------------------------------------------
(* Simulator.visualize *)

\* Simulator.visualize up to the start of the animation (visualization enabled)
Visualize ==
    /\ pc = "ready"
    /\ run_data = <<>>
    /\ displayed = NoDisplay
    /\ pc' = "animation"
    /\ UNCHANGED <<error, displayed>>
    /\ UNCHANGED <<simulator, target_route, uav_ground_trace_route, uav_camera_fov_route,
                   uav_camera_fov_radius, uav_camera_fov_angle_degrees, run_data,
                   overwritten>>
    /\ UNCHANGED gen_vars

\* Simulator._update_trajectories(current_number, trajectories), called by
\* FuncAnimation for the frames 0, 1, ..., number_of_steps - 1 in turn; an index past
\* the end of a route raises IndexError after the artists set before it
UpdateTrajectories ==
    /\ pc = "animation"
    /\ displayed.current_number + 1 < number_of_steps
    /\ LET current_number == displayed.current_number + 1
           m == Markers(current_number)
           t == Trails(current_number)
       IN  IF current_number >= Len(uav_camera_fov_route)
           THEN /\ displayed' = [displayed EXCEPT !.current_number = current_number,
                                     !.uav = m.uav, !.target = m.target,
                                     !.uav_ground_trace = m.uav_ground_trace]
                /\ error' = "IndexError"
                /\ pc' = "raised"
           ELSE IF current_number >= Len(target_route)
           THEN /\ displayed' = [displayed EXCEPT !.current_number = current_number,
                                     !.uav = m.uav, !.target = m.target,
                                     !.uav_ground_trace = m.uav_ground_trace,
                                     !.camera_fov =
                                         FirstTwo(uav_camera_fov_route[current_number + 1])]
                /\ error' = "IndexError"
                /\ pc' = "raised"
           ELSE /\ displayed' =
                       [current_number |-> current_number,
                        uav |-> m.uav, target |-> m.target,
                        uav_ground_trace |-> m.uav_ground_trace,
                        camera_fov |-> FirstTwo(uav_camera_fov_route[current_number + 1]),
                        target_rescaled |-> TargetRescaled(current_number),
                        uav_trail |-> t.uav_trail, target_trail |-> t.target_trail,
                        uav_ground_trace_trail |-> t.uav_ground_trace_trail]
                /\ error' = error
                /\ pc' = pc
    /\ UNCHANGED <<simulator, target_route, uav_ground_trace_route, uav_camera_fov_route,
                   uav_camera_fov_radius, uav_camera_fov_angle_degrees, run_data,
                   overwritten>>
    /\ UNCHANGED gen_vars

\* the radii of the camera FOV of an animated run
AnimationRadii == {Scale, 5 * Scale}

NextAnimation ==
    \/ \E which \in Simulators, radius \in AnimationRadii : SimulatorInit(which, 45, radius)
    \/ \E r \in UavRoutes : InitializeUav(r)
    \/ InitializeUavGroundTrace
    \/ InitializeUavCameraFov
    \/ \E r \in TargetRoutes : InitializeGroundTarget(r)
    \/ Visualize
    \/ UpdateTrajectories

SpecAnimation == Init /\ [][NextAnimation]_vars

----------------------------------------------------------------------------
(* Claims *)

\* the constructor of a generator has ended, by returning or by raising
ConstructorEnded == simulator = "none" /\ pc \in {"done", "raised"}

\* the constructor of a generator has returned
Constructed == simulator = "none" /\ pc = "done"

\* the records get_run_data of src/src/Simulator.py has returned
RecordsOf(which) == IF simulator = which THEN 1..Len(run_data) ELSE {}

\* squared ground-plane distance between position i of two routes
SquaredDistanceXY(r1, r2, i) ==
    (r1[i][X] - r2[i][X]) * (r1[i][X] - r2[i][X])
    + (r1[i][Y] - r2[i][Y]) * (r1[i][Y] - r2[i][Y])

\* C1: a random-walk generator constructed with 0 < number_of_steps < 100 (50, 99)
\* completes normally with zero turns: the drawn displacements are untouched and
\* the route has number_of_steps positions.
C1_ZeroTurnsBelow100 ==
    (ConstructorEnded /\ 0 < number_of_steps /\ number_of_steps < 100)
        => /\ pc = "done"
           /\ number_of_turns = 0
           /\ steps = drawn_steps
           /\ Len(route) = number_of_steps

\* C2: for every step i the record of _compute_distances holds
\* euclidean[i] = sqrt(dx^2 + dy^2), manhattan[i] = |dx| + |dy| for the x and y
\* differences of target and FOV center (z ignored), and hit[i] is true exactly
\* when euclidean[i] <= radius, the FOV edge included.
C2_DetectionRecord ==
    \A k \in RecordsOf("Simulator_1_8") :
        LET rec == run_data[k].UAV
            n == Min(Len(target_route), Len(uav_camera_fov_route))
        IN  /\ Len(rec.camera_target_miss_hits) = n
            /\ Len(rec.camera_target_euclidean_distance_from_fov_center) = n
            /\ Len(rec.camera_target_manhattan_distance_from_fov_center) = n
            /\ \A i \in 1..n :
                LET sq == SquaredDistanceXY(target_route, uav_camera_fov_route, i)
                IN  /\ rec.camera_target_euclidean_distance_from_fov_center[i] = Sqrt(sq)
                    /\ rec.camera_target_manhattan_distance_from_fov_center[i] =
                           Abs(target_route[i][X] - uav_camera_fov_route[i][X])
                           + Abs(target_route[i][Y] - uav_camera_fov_route[i][Y])
                    /\ rec.camera_target_miss_hits[i] =
                           (/\ uav_camera_fov_radius >= 0
                            /\ sq <= uav_camera_fov_radius * uav_camera_fov_radius)

\* C2 witness: a returned record with a target exactly on the FOV edge, at a height
\* other than that of the FOV center, reported as a hit
C2_Witness ==
    \E k \in RecordsOf("Simulator_1_8") : \E i \in 1..Len(run_data[k].UAV.camera_target_miss_hits) :
        /\ uav_camera_fov_radius > 0
        /\ SquaredDistanceXY(target_route, uav_camera_fov_route, i)
               = uav_camera_fov_radius * uav_camera_fov_radius
        /\ target_route[i][Z] # uav_camera_fov_route[i][Z]
        /\ run_data[k].UAV.camera_target_miss_hits[i]

\* C3: the run data of src/Simulator.py reports, for every step i, the distance
\* between the ground target and the camera FOV center, and
\* camera_target_miss_hits[i] is True exactly when that distance <= the FOV radius.
C3_RunDataTargetDistance ==
    \A k \in RecordsOf("Simulator") :
        LET rec == run_data[k].UAV
        IN  \A i \in 1..Min(Len(target_route), Len(rec.camera_target_miss_hits)) :
                LET sq == SquaredDistanceXY(target_route, uav_camera_fov_route, i)
                IN  /\ rec.camera_target_distance_from_FOV_center[i] = Sqrt(sq)
                    /\ rec.camera_target_miss_hits[i] =
                           (/\ uav_camera_fov_radius >= 0
                            /\ sq <= uav_camera_fov_radius * uav_camera_fov_radius)

\* C4: every route a generator holds has exactly number_of_steps positions, after
\* random-walk construction and after _set_linear_trajectory, _simulate_orbit and
\* _simulate_spiral_orbit (which update number_of_steps).
C4_RouteLength == Constructed => Len(route) = number_of_steps

\* C4 witness: a kinematic model has replaced the route of a constructed generator
\* by one of another, positive length
C4_Witness ==
    /\ Constructed
    /\ error = ""
    /\ Len(steps) \in KinematicStepsValues
    /\ number_of_steps > 0
    /\ number_of_steps # Len(steps)
    /\ Len(route) = number_of_steps

\* C5: every position of the route of a GroundTarget has z == 0, whatever
\* start_position the constructor accepted and whatever turns were inserted.
C5_GroundTargetZeroHeight ==
    (Constructed /\ kind = "GroundTarget") => \A i \in 1..Len(route) : route[i][Z] = 0

\* the x and y of a route are the running sums of the displacements
CumulativeXY ==
    \A i \in 1..Len(route) : \A a \in {X, Y} :
        route[i][a] = (IF i = 1 THEN start_position[a] ELSE route[i - 1][a]) + steps[i][a]

\* C6: after a UAV is constructed, route z is exactly constant from an index s in
\* [0, floor(number_of_steps/2)), the one altitude capping drew, to the last index;
\* x and y of every position are as the cumulative sum produced them.
C6_ConstantCeiling ==
    (Constructed /\ kind = "UAV")
        => /\ stop_elevation_time \in 0..(number_of_steps \div 2 - 1)
           /\ \A j \in stop_elevation_time..(number_of_steps - 1) :
                  route[j + 1][Z] = route[stop_elevation_time + 1][Z]
           /\ CumulativeXY

\* C6 witness: a UAV whose capping overwrote a height that a later displacement had
\* raised, after a climb
C6_Witness ==
    /\ Constructed
    /\ kind = "UAV"
    /\ stop_elevation_time > 0
    /\ route[1][Z] # route[stop_elevation_time + 1][Z]
    /\ \E j \in (stop_elevation_time + 2)..Len(steps) : steps[j][Z] > 0
    /\ number_of_turns > 0

\* C7: for the airborne agent the maximum z over the whole route is the z at the index
\* altitude capping drew (max(route.z) == route.z[stop_elevation_time]), and max_height /
\* min_height of the run record are the maximum / minimum z over the airborne route.
C7_MaxHeight ==
    /\ (Constructed /\ kind = "UAV")
           => /\ stop_elevation_time + 1 \in 1..Len(route)
              /\ \A i \in 1..Len(route) : route[i][Z] <= route[stop_elevation_time + 1][Z]
    /\ \A k \in RecordsOf("Simulator_1_8") :
           /\ \E i \in 1..Len(route) : run_data[k].UAV.max_height = route[i][Z]
           /\ \E i \in 1..Len(route) : run_data[k].UAV.min_height = route[i][Z]
           /\ \A i \in 1..Len(route) :
                  /\ route[i][Z] <= run_data[k].UAV.max_height
                  /\ route[i][Z] >= run_data[k].UAV.min_height

\* C8: turn insertion never changes the number of displacement rows, and the route
\* formed from the turn-modified steps satisfies route[0] == start_position + steps[0]
\* and route[i] == route[i-1] + steps[i], whatever turns were drawn.
C8_CumulativeSum ==
    /\ (simulator = "none" /\ pc \in {"turn_loop", "form_route", "set_maximum_height", "done"})
           => /\ Len(steps) = Len(drawn_steps)
              /\ Len(steps) = number_of_steps
    /\ (simulator = "none"
        /\ (pc = "set_maximum_height" \/ (pc = "done" /\ kind = "GroundTarget")))
           => /\ Len(route) = Len(steps)
              /\ \A i \in 1..Len(route) :
                     route[i] = VecAdd(IF i = 1 THEN start_position ELSE route[i - 1],
                                       steps[i])

\* C8 witness: a route formed from displacements that two turns have modified, from a
\* start position other than the origin
C8_Witness ==
    /\ simulator = "none"
    /\ pc = "set_maximum_height"
    /\ number_of_turns = 2
    /\ steps # drawn_steps
    /\ start_position # Vec(0, 0, 0)
    /\ route # <<>>

\* C9: max_step bounds every per-axis, per-step displacement of a random-walk
\* generator: after construction every component of every row of steps lies in
\* [0, max_step].
C9_MaxStepBound ==
    (Constructed /\ max_step > 0)
        => \A i \in 1..Len(steps) : \A a \in 1..3 :
               0 <= steps[i][a] /\ steps[i][a] <= max_step

\* C10: constructing a random-walk generator with number_of_steps <= 0 or
\* max_step <= 0 fails during construction: no generator with a route is produced.
C10_InvalidConfigurationFails ==
    (ConstructorEnded /\ (number_of_steps <= 0 \/ max_step <= 0)) => pc = "raised"

\* C11: detection analytics raises, instead of returning a detection record, when the
\* ground-target route and the FOV route have different lengths: every record
\* get_run_data of src/src/Simulator.py returns from non-empty routes comes from routes
\* of equal length.
C11_MismatchedLengthsRaise ==
    \A k \in RecordsOf("Simulator_1_8") :
        (target_route # <<>> /\ uav_camera_fov_route # <<>>)
            => Len(target_route) = Len(uav_camera_fov_route)

\* a route holds an undefined (NaN) coordinate
HasNaN(r) == \E i \in 1..Len(r) : \E a \in 1..3 : r[i][a] = NaN

\* an operation raised and left route and number_of_steps as they were
RaisedUnchanged ==
    /\ error' # ""
    /\ route' = route
    /\ number_of_steps' = number_of_steps
    /\ ~HasNaN(route')

\* C12: the linear model raises, leaving route and number_of_steps unchanged, when
\* start_point equals end_point (a zero-length displacement fed to normalization); it
\* never stores a route containing undefined (NaN) positions.
C12_ZeroDisplacementRaises ==
    [][\A in \in LinearInputs :
          (in[1] = in[2] /\ SetLinearTrajectory(in[1], in[2], in[3], in[4], in[5]))
              => RaisedUnchanged]_vars

\* C13: the orbit and spiral models raise, and store no route with undefined (NaN)
\* positions, when the orbit radius is zero or center coincides with start_point or
\* end_point.
C13_DegenerateOrbitRaises ==
    [][/\ \A in \in OrbitInputs :
             (in[2] = 0 /\ SimulateOrbit(in[1], in[2], in[3], in[4], in[5]))
                 => RaisedUnchanged
       /\ \A in \in SpiralInputs :
             ((in[3] = in[1] \/ in[3] = in[2])
              /\ SimulateSpiralOrbit(in[1], in[2], in[3], in[4], in[5]))
                 => RaisedUnchanged]_vars

\* the Simulator has derived the ground trace and the FOV route of its UAV
RoutesDerived == simulator # "none" /\ pc \in {"initialize_ground_target", "ready"}

\* C14: the FOV route has the length of the airborne route, z == 0 at every step, and
\* at step i its (x, y) is the airborne (x, y) plus
\* (tan(angle) * sin(yaw_i), tan(angle) * cos(yaw_i)) with yaw_i = i * 10 degrees, an
\* offset that depends on i and the angle alone.
C14_FovRoute ==
    RoutesDerived
        => /\ Len(uav_camera_fov_route) = Len(route)
           /\ \A i \in 1..Len(route) :
                  LET yaw == (i - 1) * 10
                      tangent == Tan(uav_camera_fov_angle_degrees)
                  IN  /\ uav_camera_fov_route[i][Z] = 0
                      /\ uav_camera_fov_route[i][X] - route[i][X]
                             = PyIntDiv(tangent * Sin(yaw), Scale)
                      /\ uav_camera_fov_route[i][Y] - route[i][Y]
                             = PyIntDiv(tangent * Cos(yaw), Scale)

\* C14 witness: a FOV route derived with a camera angle of 45 degrees from a route of two
\* positions, the second one airborne and away from the origin, displaced at step 1 by
\* (sin 10, cos 10)
C14_Witness ==
    /\ RoutesDerived
    /\ uav_camera_fov_angle_degrees = 45
    /\ Len(route) = 2
    /\ route[2][Z] # 0
    /\ route[2][X] # 0
    /\ uav_camera_fov_route[2] = <<route[2][X] + 174, route[2][Y] + 985, 0>>

\* C15: the ground trace route is the airborne route with z forced to 0 at every step
\* (same length, same x and y), and deriving the ground trace and the FOV route leaves
\* the airborne route itself unchanged.
C15_GroundTrace ==
    [][/\ RoutesDerived'
           => /\ Len(uav_ground_trace_route') = Len(route')
              /\ \A i \in 1..Len(route') :
                     uav_ground_trace_route'[i] = <<route'[i][X], route'[i][Y], 0>>
       /\ pc \in {"initialize_uav_ground_trace", "initialize_uav_camera_fov"}
           => route' = route]_vars

\* C15 witness: ground trace and FOV route derived from an airborne route of two
\* positions at different, non-zero heights
C15_Witness ==
    /\ RoutesDerived
    /\ Len(route) = 2
    /\ route[1][Z] # 0
    /\ route[2][Z] # 0
    /\ route[1][Z] # route[2][Z]
    /\ uav_ground_trace_route # route
    /\ uav_camera_fov_route # uav_ground_trace_route

\* the squared length of a vector
SquaredLength(v) == v[X] * v[X] + v[Y] * v[Y] + v[Z] * v[Z]

\* the example of the linear model: start (0,0,0), end (10,0,0), velocity 1, duration 5,
\* dt 1
LinearExample == <<Vec(0, 0, 0), Vec(10 * Scale, 0, 0), Scale, 5 * Scale, Scale>>

\* the route the example is to produce: (0,0,0), (1,0,0), (2,0,0), (3,0,0), (4,0,0)
LinearExampleRoute == [i \in 1..5 |-> Vec((i - 1) * Scale, 0, 0)]

\* C16: linear segment traversal produces exactly floor(duration/dt) positions with
\* position[i] = start_point + direction * velocity * dt * i, direction the unit vector
\* from start_point to end_point; the example yields (0,0,0), (1,0,0), ..., (4,0,0).
C16_LinearTrajectory ==
    [][\A in \in LinearInputs :
          (/\ in[1] # in[2]
           /\ in[5] > 0
           /\ in[4] >= 0
           /\ number_of_steps' = in[4] \div in[5]
           /\ SetLinearTrajectory(in[1], in[2], in[3], in[4], in[5]))
              => LET displacement == VecSub(in[2], in[1])
                     length == FNorm(displacement)
                     step_size == (in[3] * in[5]) \div Scale
                 IN  /\ error' = ""
                     /\ length * length = SquaredLength(displacement)
                     /\ step_size * Scale = in[3] * in[5]
                     /\ Len(route') = in[4] \div in[5]
                     /\ number_of_steps' = Len(route')
                     /\ \A i \in 1..Len(route') : \A a \in 1..3 :
                            (route'[i][a] - in[1][a]) * length
                                = displacement[a] * step_size * (i - 1)
                     /\ in = LinearExample => route' = LinearExampleRoute]_vars

\* C16 witness: the generator holds the five positions of the example
C16_Witness ==
    /\ Constructed
    /\ error = ""
    /\ number_of_steps = 5
    /\ route = LinearExampleRoute

\* the squared ground-plane distance of position p from center
SquaredRadius(p, center) ==
    (p[X] - center[X]) * (p[X] - center[X]) + (p[Y] - center[Y]) * (p[Y] - center[Y])

\* p lies on the circle of the given radius around center, up to the rounding of the
\* tabulated sine and cosine (1 part in 100 of the squared radius)
OnOrbit(p, center, radius) ==
    /\ p[X] # NaN
    /\ p[Y] # NaN
    /\ Abs(SquaredRadius(p, center) - radius * radius) * 100 <= radius * radius

\* C17: circular orbit generation produces floor(duration/dt) positions with
\* position[i] = center + radius * (cos(w*i*dt), sin(w*i*dt), 0), w = velocity/radius;
\* position[0] = center + (radius, 0, 0) and every position keeps the center's z.
C17_OrbitTrajectory ==
    [][\A in \in OrbitInputs :
          (/\ in[2] # 0
           /\ in[5] > 0
           /\ in[4] >= 0
           /\ number_of_steps' = in[4] \div in[5]
           /\ SimulateOrbit(in[1], in[2], in[3], in[4], in[5]))
              => LET center == in[1]
                     radius == in[2]
                     w == (in[3] * Scale) \div radius
                     angle(i) == (w * i * in[5]) \div Scale
                 IN  /\ error' = ""
                     /\ w * radius = in[3] * Scale
                     /\ Len(route') = in[4] \div in[5]
                     /\ number_of_steps' = Len(route')
                     /\ route'[1] = VecAdd(center, Vec(radius, 0, 0))
                     /\ \A i \in 1..Len(route') :
                            /\ route'[i][Z] = center[Z]
                            /\ OnOrbit(route'[i], center, radius)
                            /\ route'[i][X] - center[X]
                                   = PyIntDiv(radius * CosRad(angle(i - 1)), Scale)
                            /\ route'[i][Y] - center[Y]
                                   = PyIntDiv(radius * SinRad(angle(i - 1)), Scale)]_vars

\* C17 witness: the orbit of radius 5 around (0,0,0) at angular velocity 1: six
\* positions, the first (5,0,0), the second at 1 radian
C17_Witness ==
    /\ Constructed
    /\ error = ""
    /\ number_of_steps = 6
    /\ Len(route) = 6
    /\ route[1] = Vec(5 * Scale, 0, 0)
    /\ route[2] = Vec(2700, 4205, 0)

\* a call of _simulate_spiral_orbit whose center is neither start_point nor end_point,
\* with at least one step
SpiralCall(in) ==
    /\ in[3] # in[1]
    /\ in[3] # in[2]
    /\ in[5] > 0
    /\ in[4] >= in[5]
    /\ number_of_steps' = in[4] \div in[5]
    /\ SimulateSpiralOrbit(in[1], in[2], in[3], in[4], in[5])

\* position i (from 0) of the orbit of the given radius around center, at one radian
\* per time unit (the angular velocity of a displacement in the plane of the orbit)
OrbitAt(center, radius, i, dt) ==
    <<center[X] + PyIntDiv(radius * CosRad(i * dt), Scale),
      center[Y] + PyIntDiv(radius * SinRad(i * dt), Scale),
      center[Z]>>

C19_RouteReadOnly ==
    [][(pc = "done" \/ pc = "ready") => route' = route]_vars

\* the four routes held in a returned record
RecordRoutes(rec) ==
    <<rec.UAV.route,
      rec.UAV.ground_trace_route,
      IF simulator = "Simulator_1_8" THEN rec.UAV.camera_fov_center
      ELSE rec.UAV.camera_FOV_center,
      rec.target.route>>

\* C20: get_run_data is a pure read of the simulator: it leaves the UAV, target,
\* ground-trace and FOV routes unchanged, two successive calls return equal records,
\* and the routes inside a returned record are copies: overwriting them changes
\* neither the simulator's routes nor the result of a later call.
C20_GetRunDataPureRead ==
    simulator # "none"
        => /\ \A j, k \in 1..Len(run_data) : run_data[j] = run_data[k]
           /\ \A k \in 1..Len(run_data) :
                  RecordRoutes(run_data[k])
                      = <<route, uav_ground_trace_route, uav_camera_fov_route, target_route>>

\* C20 witness: get_run_data was called, the caller overwrote the target route of the
\* returned record, and a second call returned a record equal to the first
C20_Witness ==
    /\ simulator # "none"
    /\ Len(run_data) = 2
    /\ overwritten = {<<"target", 1>>}
    /\ target_route # <<>>
    /\ run_data[1] = run_data[2]
    /\ run_data[2].target.route = target_route

\* C21: when a Simulator is constructed with a non-None UAV or target start position,
\* the agent remains a trajectory generator with a route, and every position of that
\* route is the supplied start position plus the cumulative displacement up to that
\* step.
C21_StartPositionUsed ==
    [][/\ \A r \in UavRoutes, sp \in SimulatorStartPositions :
             InitializeUavAt(r, sp)
                 => /\ error' = ""
                    /\ start_position' = sp
                    /\ Len(route') = Len(r)
                    /\ \A i \in 1..Len(r) : route'[i] = VecAdd(sp, r[i])
       /\ \A r \in TargetRoutes, sp \in SimulatorStartPositions :
             InitializeGroundTargetAt(r, sp)
                 => /\ error' = ""
                    /\ pc' = "ready"
                    /\ Len(target_route') = Len(r)
                    /\ \A i \in 1..Len(r) : target_route'[i] = VecAdd(sp, r[i])]_vars

\* the routes the kinematic models compute from the arguments of the calls alone
LinearRoutes ==
    {LinearTrajectory(in[1], in[2], in[3], in[4], in[5]) :
        in \in {c \in LinearInputs : NumStepsError(c[4], c[5]) = ""}}

OrbitRoutes ==
    {OrbitTrajectory(in[1], in[2], in[3], in[4], in[5]) :
        in \in {c \in OrbitInputs : NumStepsError(c[4], c[5]) = "" /\ c[2] # 0}}

SpiralRoutes ==
    {SpiralTrajectory(in[1], in[2], in[3], in[4], in[5]) :
        in \in {c \in SpiralInputs : NumStepsError(c[4], c[5]) = ""}}

\* r advances by the same displacement at every step, on every axis
EvenlySpaced(r) ==
    \A i \in 2..Len(r) : VecSub(r[i], r[i - 1]) = VecSub(r[2], r[1])

\* r stays at one height
Level(r) == \A i \in 1..Len(r) : r[i][Z] = r[1][Z]

\* C22: each of _set_linear_trajectory, _simulate_orbit and _simulate_spiral_orbit
\* (the steps of a constructed generator that end without an exception) replaces
\* both route and number_of_steps with the newly computed sequence and its length,
\* and the new route carries no trace of turn insertion or altitude capping: it is
\* the sequence computed from the arguments of the call alone, a linear route
\* advances by the same displacement at every step (nothing zeroed, tripled or held
\* at a ceiling), an orbit and a spiral stay at one height, and steps and what the
\* random walk recorded are left as they were.
C22_KinematicReplacesRoute ==
    [][(pc = "done" /\ error' = "")
          => /\ number_of_steps' = Len(route')
             /\ route' \in LinearRoutes \cup OrbitRoutes \cup SpiralRoutes
             /\ route' \in LinearRoutes => EvenlySpaced(route')
             /\ route' \in OrbitRoutes \cup SpiralRoutes => Level(route')
             /\ UNCHANGED <<steps, drawn_steps, turns_applied, stop_elevation_time,
                            start_position>>]_vars

\* C22 witness: a UAV whose random walk was capped from its first position on holds
\* a linear route of three positions that climbs at every step
C22_Witness ==
    /\ Constructed
    /\ error = ""
    /\ kind = "UAV"
    /\ stop_elevation_time = 0
    /\ Len(steps) \in KinematicStepsValues
    /\ number_of_steps = 3
    /\ Len(route) = 3
    /\ route[1][Z] < route[2][Z]
    /\ route[2][Z] < route[3][Z]

\* a record of src/src/Simulator.py taken while the target route and the FOV route
\* are the same non-empty sequence of positions
IdenticalRoutesRecords ==
    {k \in RecordsOf("Simulator_1_8") :
        target_route # <<>> /\ target_route = uav_camera_fov_route}

\* C23 as stated: when the target route is identical to the FOV route at every step,
\* detection reports a hit at every step, regardless of the radius value.
C23_HitWhateverRadius ==
    \A k \in IdenticalRoutesRecords :
        /\ Len(run_data[k].UAV.camera_target_miss_hits) = Len(target_route)
        /\ \A i \in 1..Len(target_route) : run_data[k].UAV.camera_target_miss_hits[i]

\* C23: when the target route is identical to the FOV route at every step, detection
\* reports distance 0 and a hit at every step for every radius >= 0, radius 0
\* included, and a miss at every step for a negative radius.
C23_HitNonNegativeRadius ==
    \A k \in IdenticalRoutesRecords :
        LET rec == run_data[k].UAV
        IN  /\ Len(rec.camera_target_miss_hits) = Len(target_route)
            /\ \A i \in 1..Len(target_route) :
                  /\ rec.camera_target_euclidean_distance_from_fov_center[i] = Sqrt(0)
                  /\ rec.camera_target_miss_hits[i] = (uav_camera_fov_radius >= 0)

\* C23 witness: a record over identical routes of more than one position, taken with
\* radius 0, that reports a hit at every step
C23_Witness ==
    \E k \in IdenticalRoutesRecords :
        /\ uav_camera_fov_radius = 0
        /\ Len(target_route) > 1
        /\ \A i \in 1..Len(target_route) : run_data[k].UAV.camera_target_miss_hits[i]

\* the distance of p and of q to itself is 0 and the distances between p and q do not
\* depend on the order of the arguments
IdentityAndSymmetry(p, q) ==
    /\ compute_euclidean_distance(p, p) = Sqrt(0)
    /\ compute_euclidean_distance(q, q) = Sqrt(0)
    /\ compute_manhattan_distance(p, p) = 0
    /\ compute_manhattan_distance(q, q) = 0
    /\ compute_euclidean_distance_xy(p, p) = Sqrt(0)
    /\ compute_euclidean_distance_xy(q, q) = Sqrt(0)
    /\ compute_euclidean_distance(p, q) = compute_euclidean_distance(q, p)
    /\ compute_manhattan_distance(p, q) = compute_manhattan_distance(q, p)
    /\ compute_euclidean_distance_xy(p, q) = compute_euclidean_distance_xy(q, p)

\* C24: compute_euclidean_distance(p, p) == 0 and compute_manhattan_distance(p, p)
\* == 0 for every point p, and both are symmetric in their arguments: checked on the
\* points get_run_data computes a distance on (the positions of the target, of the
\* UAV and of the FOV center at each step, with and without their z coordinate) and
\* on the distances it recorded, as long as the caller has not written into a route.
C24_DistanceIdentitySymmetry ==
    (run_data # <<>> /\ overwritten = {})
        => /\ \A i \in 1..ZipLen(target_route, uav_camera_fov_route) :
                 /\ IdentityAndSymmetry(target_route[i], uav_camera_fov_route[i])
                 /\ IdentityAndSymmetry(FirstTwo(target_route[i]),
                                        FirstTwo(uav_camera_fov_route[i]))
           /\ \A i \in 1..ZipLen(route, uav_camera_fov_route) :
                 IdentityAndSymmetry(FirstTwo(route[i]), FirstTwo(uav_camera_fov_route[i]))
           /\ simulator = "Simulator_1_8" =>
                 LET rec == run_data[Len(run_data)].UAV
                 IN  \A i \in 1..Len(rec.camera_target_miss_hits) :
                         LET t == FirstTwo(target_route[i])
                             c == FirstTwo(uav_camera_fov_route[i])
                         IN  /\ rec.camera_target_euclidean_distance_from_fov_center[i]
                                    = compute_euclidean_distance(c, t)
                             /\ rec.camera_target_manhattan_distance_from_fov_center[i]
                                    = compute_manhattan_distance(c, t)
                             /\ t = c =>
                                    rec.camera_target_manhattan_distance_from_fov_center[i] = 0

\* C24 witness: a record with a step where the target is on the FOV center, both
\* distances 0, and a step where it is elsewhere, both distances positive
C24_Witness ==
    \E k \in IF overwritten = {} THEN RecordsOf("Simulator_1_8") ELSE {} :
        LET rec == run_data[k].UAV
        IN  \E i, j \in 1..Len(rec.camera_target_miss_hits) :
                /\ FirstTwo(target_route[i]) = FirstTwo(uav_camera_fov_route[i])
                /\ rec.camera_target_manhattan_distance_from_fov_center[i] = 0
                /\ rec.camera_target_euclidean_distance_from_fov_center[i] = Sqrt(0)
                /\ FirstTwo(target_route[j]) # FirstTwo(uav_camera_fov_route[j])
                /\ rec.camera_target_manhattan_distance_from_fov_center[j] > 0
                /\ rec.camera_target_euclidean_distance_from_fov_center[j].sqrt_of > 0

\* the loop of _insert_turns has ended (or there was no turn to insert)
TurnsInserted ==
    /\ simulator = "none"
    /\ pc \in {"form_route", "set_maximum_height", "done"}
    /\ Len(steps) = number_of_steps

\* row i (counted from 1) lies in the window of the j-th turn applied
InWindow(j, i) ==
    /\ turns_applied[j][1] <= i - 1
    /\ i - 1 < turns_applied[j][1] + TurnDuration(number_of_steps)

\* the turns applied, in insertion order, whose window holds row i
TurnsOver(i) == {j \in 1..Len(turns_applied) : InWindow(j, i)}

\* the drawn displacements after the j-th turn alone
OnlyTurn(j) ==
    InsertTurn(drawn_steps, turns_applied[j][1], TurnDuration(number_of_steps),
               turns_applied[j][2])

\* C25: when one turn's window overlaps the window of an earlier turn, the later turn
\* wins on the overlapping indices: the displacement rows there end up exactly as if
\* only the later turn had been applied to the originally drawn displacements.
C25_LaterTurnWins ==
    (TurnsInserted /\ max_step > 0)
        => \A i \in 1..Len(steps) :
               Cardinality(TurnsOver(i)) >= 2
                   => steps[i] = OnlyTurn(MaxOf(TurnsOver(i)))[i]

\* C26: a single turn starting at index s with duration d modifies exactly the rows
\* with index in [s, min(s + d, number_of_steps)): on those rows the chosen horizontal
\* axis becomes 0, the other horizontal axis is multiplied by 3 and the z displacement
\* becomes 0; a window running past the end of the array is clipped without error,
\* and every row outside the window is unchanged.
C26_SingleTurnWindow ==
    [][(pc = "turn_loop" /\ simulator = "none")
          => LET s == Head(turn_start_times)
                 d == IF number_of_steps > 50 THEN number_of_steps \div 50 ELSE 1
                 end == Min(s + d, number_of_steps)
                 left_or_right == turns_applied'[Len(turns_applied')][2]
             IN  /\ error' = error
                 /\ pc' # "raised"
                 /\ turns_applied' = Append(turns_applied, <<s, left_or_right>>)
                 /\ Len(steps') = number_of_steps
                 /\ \A i \in 0..(number_of_steps - 1) :
                        IF s <= i /\ i < end
                        THEN /\ steps'[i + 1][left_or_right + 1] = 0
                             /\ steps'[i + 1][(1 - left_or_right) + 1]
                                    = 3 * steps[i + 1][(1 - left_or_right) + 1]
                             /\ steps'[i + 1][Z] = 0
                        ELSE steps'[i + 1] = steps[i + 1]]_vars

\* C26 witness: the only turn of a generator starts on the last but one row, so that
\* its window runs past the end; the two last rows are turned, with a tripled
\* displacement above 0, and the row before them is as drawn
C26_Witness ==
    /\ TurnsInserted
    /\ max_step > 0
    /\ Len(turns_applied) = 1
    /\ turns_applied[1][1] = number_of_steps - 2
    /\ TurnDuration(number_of_steps) > 2
    /\ \A i \in {number_of_steps - 1, number_of_steps} :
           /\ steps[i][turns_applied[1][2] + 1] = 0
           /\ steps[i][Z] = 0
           /\ steps[i][(1 - turns_applied[1][2]) + 1]
                  = 3 * drawn_steps[i][(1 - turns_applied[1][2]) + 1]
    /\ steps[number_of_steps][(1 - turns_applied[1][2]) + 1] > 0
    /\ steps[number_of_steps - 2] = drawn_steps[number_of_steps - 2]
    /\ drawn_steps[number_of_steps - 2][Z] > 0

\* C27: for number_of_steps >= 100 the number of inserted turns is drawn from
\* [0, floor(number_of_steps/100)), so at most floor(number_of_steps/100) - 1 turns are
\* inserted (none for 100 <= number_of_steps < 200), every turn start index lies in
\* [0, number_of_steps), and every turn has duration floor(number_of_steps/50) (1 when
\* number_of_steps <= 50): rows at or after start + duration are not touched by it.
C27_TurnCountStartDuration ==
    (/\ simulator = "none"
     /\ number_of_steps >= 100
     /\ pc \in {"turn_loop", "form_route", "set_maximum_height", "done"})
        => LET n == number_of_steps
               d == IF n > 50 THEN n \div 50 ELSE 1
               starts == {turns_applied[j][1] : j \in 1..Len(turns_applied)}
                         \cup {turn_start_times[j] : j \in 1..Len(turn_start_times)}
           IN  /\ error = ""
               /\ 0 <= number_of_turns
               /\ number_of_turns < n \div 100
               /\ number_of_turns <= (n \div 100) - 1
               /\ n < 200 => number_of_turns = 0 /\ steps = drawn_steps
               /\ Len(turns_applied) + Len(turn_start_times) = number_of_turns
               /\ \A s \in starts : 0 <= s /\ s < n
               /\ \A i \in 0..(n - 1) :
                      IF \E s \in starts : s <= i /\ i < s + d
                      THEN pc # "turn_loop" => steps[i + 1][Z] = 0
                      ELSE steps[i + 1] = drawn_steps[i + 1]

\* C27 witness: a UAV of 300 steps with floor(300/100) - 1 = 2 turns of 6 rows, one
\* from the first row and one from the last, which leaves 7 rows without climb
C27_Witness ==
    /\ Constructed
    /\ kind = "UAV"
    /\ max_step > 0
    /\ number_of_steps = 300
    /\ number_of_turns = 2
    /\ {turns_applied[j][1] : j \in 1..Len(turns_applied)} = {0, 299}
    /\ steps[6][Z] = 0
    /\ steps[7] = drawn_steps[7]
    /\ steps[7][Z] > 0
    /\ steps[300][Z] = 0
    /\ steps[299] = drawn_steps[299]

\* C28: at every animation frame k in 0..number_of_steps-1, _update_trajectories
\* updates all displayed elements to the same current step k: the UAV, target and
\* ground-trace markers, the FOV circle drawn on the ground, and the rescaled target
\* position in the FOV panel all show data of step k of their respective routes.
C28_FrameShowsOneStep ==
    (pc = "animation" /\ displayed.current_number >= 0)
        => LET k == displayed.current_number
           IN  /\ displayed.uav = <<route[k + 1]>>
               /\ displayed.target = <<target_route[k + 1]>>
               /\ displayed.uav_ground_trace = <<uav_ground_trace_route[k + 1]>>
               /\ displayed.camera_fov = FirstTwo(uav_camera_fov_route[k + 1])
               /\ displayed.target_rescaled = TargetRescaled(k)

\* C29: for every random-walk route generated with max_step > 0, the x and y
\* coordinates are non-decreasing along the route and never below the start position's
\* x and y, and the z coordinate of a UAV route is non-decreasing, because every
\* displacement component stays >= 0 through turn insertion and capping.
C29_MonotoneRoute ==
    (Constructed /\ max_step > 0)
        => /\ \A i \in 1..Len(steps) : \A a \in 1..3 : steps[i][a] >= 0
           /\ \A i \in 1..Len(route) :
                  /\ route[i][X] >= start_position[X]
                  /\ route[i][Y] >= start_position[Y]
                  /\ i > 1 => /\ route[i][X] >= route[i - 1][X]
                              /\ route[i][Y] >= route[i - 1][Y]
                  /\ kind = "UAV" =>
                         /\ route[i][Z] >= start_position[Z]
                         /\ i > 1 => route[i][Z] >= route[i - 1][Z]

\* C29 witness: a UAV that started away from the origin, turned twice, climbed over
\* its first steps and was then held at its ceiling, and advanced on x or y at its
\* last step
C29_Witness ==
    /\ Constructed
    /\ kind = "UAV"
    /\ max_step > 0
    /\ start_position # Vec(0, 0, 0)
    /\ number_of_turns = 2
    /\ stop_elevation_time > 0
    /\ route[stop_elevation_time + 1][Z] > route[1][Z]
    /\ route[Len(route)][Z] = route[stop_elevation_time + 1][Z]
    /\ route[Len(route)][X] + route[Len(route)][Y]
           > route[Len(route) - 1][X] + route[Len(route) - 1][Y]

\* C30: after a UAV has been fully constructed (altitude capping included), its steps
\* array still describes its route at every index: route[0] == start_position +
\* steps[0] and route[i] - route[i-1] == steps[i] on all three axes for every i >= 1.
C30_StepsDescribeRoute ==
    (Constructed /\ kind = "UAV" /\ max_step > 0)
        => /\ Len(route) = Len(steps)
           /\ route[1] = VecAdd(start_position, steps[1])
           /\ \A i \in 2..Len(route) : VecSub(route[i], route[i - 1]) = steps[i]

====
